---- MODULE Spec2Model ----
(***************************************************************************)
(* Model of the detection and fusion engine of the WavOracle analyzer,     *)
(* class EssentiaProfessionalAnalyzer                                      *)
(* (src/src/assets/essentia-professional-analyzer.js).                     *)
(*                                                                         *)
(* Confidences are JavaScript numbers in the source; the model keeps them  *)
(* as integer hundredths (0.85 is 85), so that the comparison with the     *)
(* threshold is exact.                                                     *)
(*                                                                         *)
(* JavaScript null is modelled by a record with present = FALSE, so that   *)
(* every value of one field has one shape.                                 *)
(***************************************************************************)
EXTENDS Integers, Sequences, FiniteSets, TLC

(***************************************************************************)
(* Bounds of the model.                                                    *)
(***************************************************************************)
\* longest list of lookup records handed to the fusion policy
MaxRecords == 2
\* number of analyzeSong calls made on the one analyzer
MaxCalls == 2

(***************************************************************************)
(* Program constants.                                                      *)
(***************************************************************************)
\* constructor: this.confidenceThreshold = 0.85, in hundredths
ConfidenceThreshold == 85

(***************************************************************************)
(* Values.                                                                 *)
(***************************************************************************)
\* results.analysis = null, results.webData = null
Null == [present |-> FALSE]

\* a native result that gives up the key when the tempo is the default one
NativeResultDropsKey(keyInfo, bpmInfo) ==
    [present |-> TRUE,
     key |-> IF bpmInfo.confidence = 0
             THEN [key |-> "Unknown", confidence |-> 0]
             ELSE keyInfo,
     bpm |-> bpmInfo]

\* the object essentiaAnalysis resolves with: {key: keyInfo, bpm: bpmInfo, ...}
NativeResult(keyInfo, bpmInfo) ==
    [present |-> TRUE, key |-> keyInfo, bpm |-> bpmInfo]

\* the array searchMultipleDatabases returns
WebData(list) == [present |-> TRUE, list |-> list]

\* the return value of detectKeyWithEssentia / analyzeKeyFromHPCP when it catches
UnknownKey == [key |-> "Unknown", confidence |-> 0]

\* the return value of detectBPMWithEssentia when it catches
ZeroBPM == [bpm |-> 0, confidence |-> 0]

Tiers == {"high", "medium", "low"}

(***************************************************************************)
(* parseInt(s) || 0 for a string s given as a sequence of characters: the  *)
(* value of the longest prefix of decimal digits, 0 when there is none     *)
(* (parseInt gives NaN, and NaN || 0 is 0).                                *)
(***************************************************************************)
Digits == <<"0", "1", "2", "3", "4", "5", "6", "7", "8", "9">>

IsDigit(ch) == \E i \in 1..10 : Digits[i] = ch

DigitValue(ch) == (CHOOSE i \in 1..10 : Digits[i] = ch) - 1

RECURSIVE ParseDigits(_, _)
ParseDigits(s, acc) ==
    IF s = <<>> \/ ~IsDigit(Head(s))
    THEN acc
    ELSE ParseDigits(Tail(s), acc * 10 + DigitValue(Head(s)))

ParseIntOrZero(s) == ParseDigits(s, 0)

(***************************************************************************)
(* (x * 100).toFixed(1) + "%" for a confidence x kept in hundredths.       *)
(***************************************************************************)
Percent(c) == ToString(c) \o ".0%"

(***************************************************************************)
(* generateRecommendation(key, bpm, confidence)                            *)
(***************************************************************************)
GenerateRecommendation(key, bpm, confidence) ==
    IF confidence = "high"
    THEN "High confidence result - safe to use for mixing and production"
    ELSE IF confidence = "medium"
    THEN "Medium confidence - verify with your ears before mixing"
    ELSE "Low confidence - manual verification recommended"

(***************************************************************************)
(* generateConfidentResult(results), in the order of its statements.       *)
(***************************************************************************)
\* let finalKey = 'Unknown'; let finalBPM = 0; let confidence = 'low'; ...
FusionStart ==
    [finalKey |-> "Unknown", finalBPM |-> 0, confidence |-> "low",
     method |-> "none", notes |-> <<>>]

AboveThresholdAtLeast(keyConfidence, bpmConfidence) ==
    keyConfidence >= ConfidenceThreshold /\ bpmConfidence >= ConfidenceThreshold

\* keyConfidence > this.confidenceThreshold && bpmConfidence > this.confidenceThreshold
AboveThreshold(keyConfidence, bpmConfidence) ==
    keyConfidence > ConfidenceThreshold /\ bpmConfidence > ConfidenceThreshold

\* if (results.analysis) { ... }
NativeStage(results, st) ==
    IF ~results.analysis.present
    THEN st
    ELSE LET keyConfidence == results.analysis.key.confidence
             bpmConfidence == results.analysis.bpm.confidence
         IN  IF AboveThreshold(keyConfidence, bpmConfidence)
             THEN [finalKey |-> results.analysis.key.key,
                   finalBPM |-> results.analysis.bpm.bpm,
                   confidence |-> "high",
                   method |-> "essentia_analysis",
                   notes |-> st.notes \o
                       << "High confidence - Essentia.js professional analysis",
                          "Key confidence: " \o Percent(keyConfidence),
                          "BPM confidence: " \o Percent(bpmConfidence) >>]
             ELSE IF st.confidence = "low"
             THEN [finalKey |-> results.analysis.key.key,
                   finalBPM |-> results.analysis.bpm.bpm,
                   confidence |-> "medium",
                   method |-> "essentia_analysis_fallback",
                   notes |-> st.notes \o
                       << "Medium confidence - Essentia.js analysis",
                          "Key confidence: " \o Percent(keyConfidence),
                          "BPM confidence: " \o Percent(bpmConfidence) >>]
             ELSE st

WebFallbackAlways(results, st) ==
    results.webData.present /\ Len(results.webData.list) > 0

WebFallbackNeedsTwo(results, st) ==
    st.confidence = "low" /\ results.webData.present /\ Len(results.webData.list) > 1

\* confidence === 'low' && results.webData && results.webData.length > 0
WebFallbackApplies(results, st) ==
    st.confidence = "low" /\ results.webData.present /\ Len(results.webData.list) > 0

\* const bestWebResult = results.webData[0];
BestWebResult(webData) == webData.list[1]

\* a lookup stage that takes the key of the first record and the bpm of the last
WebStageMixesRecords(results, st) ==
    IF WebFallbackApplies(results, st)
    THEN LET bestWebResult == BestWebResult(results.webData)
             lastWebResult == results.webData.list[Len(results.webData.list)]
         IN  [finalKey |-> bestWebResult.key,
              finalBPM |-> ParseIntOrZero(lastWebResult.bpm),
              confidence |-> "medium",
              method |-> "web_database",
              notes |-> st.notes \o
                  << "Data from " \o bestWebResult.source,
                     "Medium confidence - database lookup" >>]
    ELSE st

\* if (confidence === 'low' && results.webData && ...) { ... }
WebStage(results, st) ==
    IF WebFallbackApplies(results, st)
    THEN LET bestWebResult == BestWebResult(results.webData)
         IN  [finalKey |-> bestWebResult.key,
              finalBPM |-> ParseIntOrZero(bestWebResult.bpm),
              confidence |-> "medium",
              method |-> "web_database",
              notes |-> st.notes \o
                  << "Data from " \o bestWebResult.source,
                     "Medium confidence - database lookup" >>]
    ELSE st

\* if (confidence === 'low') return {...}; return {...};
FusionReturn(st) ==
    IF st.confidence = "low"
    THEN [key |-> "Unknown", bpm |-> 0, confidence |-> "low", method |-> "none",
          notes |-> << "Analysis failed - insufficient confidence" >>,
          recommendation |-> "Try a different song or check audio quality"]
    ELSE [key |-> st.finalKey, bpm |-> st.finalBPM, confidence |-> st.confidence,
          method |-> st.method, notes |-> st.notes,
          recommendation |->
              GenerateRecommendation(st.finalKey, st.finalBPM, st.confidence)]

GenerateConfidentResult(results) ==
    FusionReturn(WebStage(results, NativeStage(results, FusionStart)))

(***************************************************************************)
(* The analyzer object and the analyzeSong calls in flight.                *)
(*                                                                         *)
(* JavaScript runs one callback at a time: an action below is the code     *)
(* that runs between two awaits, and the calls interleave only at awaits.  *)
(***************************************************************************)
VARIABLES
    isInitialized,          \* this.isInitialized
    initializationPromise,  \* this.initializationPromise: "null", or its state
    essentiaExtractor,      \* this.essentiaExtractor, with whether delete() ran
    analysisCache,          \* this.analysisCache: cache key -> bundle
    pc,                     \* where each analyzeSong call stands
    args,                   \* (title, artist, audioFile.size) of each call
    results,                \* the local results object of each call
    ret,                    \* what each call returned
    nativeCalls,            \* times each call invoked essentiaAnalysis
    lookupCalls,            \* times each call invoked searchMultipleDatabases
    fusionCalls,            \* times each call invoked generateConfidentResult
    path                    \* what happened on each call's paths

analyzerVars == <<isInitialized, initializationPromise, essentiaExtractor,
                  analysisCache>>
callVars == <<pc, args, results, ret, nativeCalls,
              lookupCalls, fusionCalls, path>>

Calls == 1..MaxCalls

\* artist = null (the default of the parameter), or a string
NullArtist == [isNull |-> TRUE, str |-> ""]
Artist(s) == [isNull |-> FALSE, str |-> s]

\* the (title, artist, audioFile.size) triples the calls are made with
Requests ==
    { [title |-> "a-b", artist |-> Artist("c"),   size |-> 1],
      [title |-> "a",   artist |-> Artist("b-c"), size |-> 1],
      [title |-> "a-b", artist |-> Artist("c"),   size |-> 2] }

NoRequest == [title |-> "", artist |-> NullArtist, size |-> 0]

\* The first two requests differ only in where the "-" falls between title
\* and artist, and exchanging them maps every behaviour to a behaviour: the
\* first call is made with one of them or with the third.
FirstRequests == { r \in Requests : r.title = "a-b" }

\* `${artist}` in a template literal: null prints as "null"
ArtistText(artist) == IF artist.isNull THEN "null" ELSE artist.str

\* const cacheKey = `${title}-${artist}-${audioFile.size}`;
CacheKey(title, artist, size) ==
    title \o "-" \o ArtistText(artist) \o "-" \o ToString(size)

KeyOf(req) == CacheKey(req.title, req.artist, req.size)

CacheHasNever(cache, key) == FALSE

\* this.analysisCache.has(cacheKey)
CacheHas(cache, key) == key \in DOMAIN cache

\* a cache that holds the latest bundle only
CacheSetOnly(cache, key, value) == [k \in {key} |-> value]

\* a cache that keeps the first bundle stored under a key
CacheSetIfAbsent(cache, key, value) ==
    [k \in DOMAIN cache \cup {key} |-> IF k \in DOMAIN cache THEN cache[k] ELSE value]

\* a cache that takes no bundle whose final result is the failure result
CacheSetUnlessFailed(cache, key, value) ==
    IF value.finalResult.method = "none"
    THEN cache
    ELSE [k \in DOMAIN cache \cup {key} |-> IF k = key THEN value ELSE cache[k]]

\* this.analysisCache.set(key, value)
CacheSet(cache, key, value) ==
    [k \in DOMAIN cache \cup {key} |-> IF k = key THEN value ELSE cache[k]]

\* what analyzeKeyFromHPCP returns when no extractor call throws
KeyEstimates == { [key |-> "C major", confidence |-> 90] }

\* what detectBPMWithEssentia returns when RhythmExtractor2013 does not throw
TempoEstimates ==
    { [bpm |-> 120, confidence |-> 90, method |-> "essentia_rhythm_extractor"] }

\* what searchTunebat returns when both patterns match
TunebatRecords == { [key |-> "Dm", bpm |-> <<"1", "2", "8">>, source |-> "Tunebat"] }

\* what searchMusicBrainz returns when a recording is found
MusicBrainzRecords ==
    { [key |-> "Unknown", bpm |-> <<"0">>, source |-> "MusicBrainz"] }

\* const results = { title, artist, analysis: null, webData: null, ... }
NewResults(req) ==
    [title |-> req.title, artist |-> req.artist, analysis |-> Null,
     webData |-> Null, finalResult |-> Null, confidence |-> "low",
     method |-> "none"]

NoPath == [cache |-> "none", native |-> "none", key |-> "none", bpm |-> "none",
           lookup |-> "none"]

Constructor ==
    /\ isInitialized = FALSE
    /\ initializationPromise = "null"
    /\ essentiaExtractor = Null
    /\ analysisCache = [k \in {} |-> Null]
    /\ pc = [c \in Calls |-> "idle"]
    /\ args = [c \in Calls |-> NoRequest]
    /\ results = [c \in Calls |-> Null]
    /\ ret = [c \in Calls |-> Null]
    /\ nativeCalls = [c \in Calls |-> 0]
    /\ lookupCalls = [c \in Calls |-> 0]
    /\ fusionCalls = [c \in Calls |-> 0]
    /\ path = [c \in Calls |-> NoPath]

\* an initialize() that starts over whenever the analyzer is not initialized
AnalyzeSongRestartsInit(c, req) ==
    /\ pc[c] = "idle"
    /\ \A d \in Calls : d < c => pc[d] # "idle"
    /\ c = 1 => req \in FirstRequests
    /\ args' = [args EXCEPT ![c] = req]
    /\ pc' = [pc EXCEPT ![c] = "awaitInit"]
    /\ initializationPromise' =
           IF ~isInitialized THEN "loading" ELSE initializationPromise
    /\ UNCHANGED <<isInitialized, essentiaExtractor, analysisCache, results,
                   ret, nativeCalls, lookupCalls,
                   fusionCalls, path>>

(***************************************************************************)
(* analyzeSong(audioFile, title, artist) up to `await this.initialize()`,  *)
(* with the synchronous part of initialize(). The calls are numbered in    *)
(* the order in which they are made.                                       *)
(***************************************************************************)
AnalyzeSong(c, req) ==
    /\ pc[c] = "idle"
    /\ \A d \in Calls : d < c => pc[d] # "idle"
    /\ c = 1 => req \in FirstRequests
    /\ args' = [args EXCEPT ![c] = req]
    /\ pc' = [pc EXCEPT ![c] = "awaitInit"]
    /\ initializationPromise' =
           IF ~isInitialized /\ initializationPromise = "null"
           THEN "loading"
           ELSE initializationPromise
    /\ UNCHANGED <<isInitialized, essentiaExtractor, analysisCache, results,
                   ret, nativeCalls, lookupCalls,
                   fusionCalls, path>>

(***************************************************************************)
(* initialize(): the promise executor after `await loadEssentiaScripts()`. *)
(* outcome: "loaded", "error" (a script did not load), or "undefined"      *)
(* (the scripts loaded and EssentiaWASM is still undefined).               *)
(***************************************************************************)
LoadEssentiaScripts(outcome) ==
    /\ initializationPromise = "loading"
    /\ initializationPromise' = IF outcome = "loaded" THEN "wasm" ELSE "rejected"
    /\ UNCHANGED <<isInitialized, essentiaExtractor, analysisCache>>
    /\ UNCHANGED callVars

(***************************************************************************)
(* initialize(): the promise executor after `await EssentiaWASM()`.        *)
(***************************************************************************)
EssentiaReady(ok) ==
    /\ initializationPromise = "wasm"
    /\ IF ok
       THEN /\ essentiaExtractor' = [present |-> TRUE, deleted |-> FALSE]
            /\ isInitialized' = TRUE
            /\ initializationPromise' = "resolved"
       ELSE /\ initializationPromise' = "rejected"
            /\ UNCHANGED <<isInitialized, essentiaExtractor>>
    /\ UNCHANGED analysisCache
    /\ UNCHANGED callVars

(***************************************************************************)
(* analyzeSong: `await this.initialize()` rejects; nothing catches it.     *)
(***************************************************************************)
AnalyzeInitRejected(c) ==
    /\ pc[c] = "awaitInit"
    /\ initializationPromise = "rejected"
    /\ pc' = [pc EXCEPT ![c] = "thrown"]
    /\ UNCHANGED analyzerVars
    /\ UNCHANGED <<args, results, ret, nativeCalls,
                   lookupCalls, fusionCalls, path>>

(***************************************************************************)
(* analyzeSong after initialize(): the cache check; on a miss the results  *)
(* object and the call of essentiaAnalysis, up to reader.readAsArrayBuffer.*)
(***************************************************************************)
AnalyzeCheckCache(c) ==
    /\ pc[c] = "awaitInit"
    /\ isInitialized
    /\ LET cacheKey == KeyOf(args[c])
       IN  IF CacheHas(analysisCache, cacheKey)
           THEN /\ ret' = [ret EXCEPT ![c] = analysisCache[cacheKey]]
                /\ pc' = [pc EXCEPT ![c] = "done"]
                /\ path' = [path EXCEPT ![c].cache = "hit"]
                /\ UNCHANGED <<results, nativeCalls>>
           ELSE /\ results' = [results EXCEPT ![c] = NewResults(args[c])]
                /\ nativeCalls' = [nativeCalls EXCEPT ![c] = @ + 1]
                /\ pc' = [pc EXCEPT ![c] = "reading"]
                /\ path' = [path EXCEPT ![c].cache = "miss"]
                /\ UNCHANGED ret
    /\ UNCHANGED analyzerVars
    /\ UNCHANGED <<args, lookupCalls, fusionCalls>>

(***************************************************************************)
(* analyzeSong after both try blocks, for the results object r:            *)
(* results.finalResult = this.generateConfidentResult(results);            *)
(* this.analysisCache.set(cacheKey, results); return results;              *)
(***************************************************************************)
FuseStoreReturn(c, r) ==
    LET bundle == [r EXCEPT !.finalResult = GenerateConfidentResult(r)]
    IN  /\ results' = [results EXCEPT ![c] = Null]   \* the local is gone
        /\ fusionCalls' = [fusionCalls EXCEPT ![c] = @ + 1]
        /\ analysisCache' = CacheSet(analysisCache, KeyOf(args[c]), bundle)
        /\ ret' = [ret EXCEPT ![c] = bundle]
        /\ pc' = [pc EXCEPT ![c] = "done"]

\* a native failure that ends the analysis at once, without the lookup
NativeRejectedFailFast(c) ==
    /\ pc[c] = "reading"
    /\ FuseStoreReturn(c, results[c])
    /\ path' = [path EXCEPT ![c].native = "failed"]
    /\ UNCHANGED <<isInitialized, initializationPromise, essentiaExtractor>>
    /\ UNCHANGED <<args, nativeCalls, lookupCalls>>

(***************************************************************************)
(* essentiaAnalysis rejects (reader.onerror, or decodeAudioData rejects);  *)
(* analyzeSong catches, leaves results.analysis null and calls             *)
(* searchMultipleDatabases, and awaits it.                          *)
(***************************************************************************)
NativeRejected(c) ==
    /\ pc[c] = "reading"
    /\ path' = [path EXCEPT ![c].native = "failed"]
    /\ lookupCalls' = [lookupCalls EXCEPT ![c] = @ + 1]
    /\ pc' = [pc EXCEPT ![c] = "lookup"]
    /\ UNCHANGED analyzerVars
    /\ UNCHANGED <<args, results, ret, nativeCalls,
                   fusionCalls>>

(***************************************************************************)
(* detectKeyWithEssentia(audioData, sampleRate). threw: FrameGenerator,    *)
(* vectorToArray or hpcpExtractor threw and the catch returned the Unknown *)
(* key; otherwise estimate is what analyzeKeyFromHPCP returned and         *)
(* delete() ran on the extractor. Gives the key info and the extractor.    *)
(***************************************************************************)
DetectKeyWithEssentia(extractor, threw, estimate) ==
    IF threw
    THEN [info |-> UnknownKey, extractor |-> extractor]
    ELSE [info |-> estimate, extractor |-> [extractor EXCEPT !.deleted = TRUE]]

\* a catch that reports the estimate as if the rhythm extractor had not thrown
DetectBPMIgnoresFailure(extractor, threw, estimate) ==
    IF threw
    THEN [info |-> estimate, extractor |-> extractor]
    ELSE [info |-> estimate, extractor |-> [extractor EXCEPT !.deleted = TRUE]]

(***************************************************************************)
(* detectBPMWithEssentia(audioData, sampleRate). threw: RhythmExtractor2013*)
(* threw and the catch returned bpm 0; otherwise estimate is the rounded   *)
(* bpm with its confidence and delete() ran on the extractor.              *)
(***************************************************************************)
DetectBPMWithEssentia(extractor, threw, estimate) ==
    IF threw
    THEN [info |-> ZeroBPM, extractor |-> extractor]
    ELSE [info |-> estimate, extractor |-> [extractor EXCEPT !.deleted = TRUE]]

(***************************************************************************)
(* reader.onload after decodeAudioData: key detection, tempo detection and *)
(* resolve({key, bpm, ...}); analyzeSong sets results.analysis and calls   *)
(* searchMultipleDatabases. Neither detector awaits anything, so the two   *)
(* run in one chain of promise jobs that no other callback interrupts.     *)
(***************************************************************************)
NativeResolved(c, keyThrew, keyEstimate, bpmThrew, bpmEstimate) ==
    /\ pc[c] = "reading"
    /\ LET k == DetectKeyWithEssentia(essentiaExtractor, keyThrew, keyEstimate)
           b == DetectBPMWithEssentia(k.extractor, bpmThrew, bpmEstimate)
       IN  /\ results' = [results EXCEPT ![c].analysis = NativeResult(k.info, b.info)]
           /\ essentiaExtractor' = b.extractor
    /\ path' = [path EXCEPT ![c].native = "ok",
                            ![c].key = IF keyThrew THEN "threw" ELSE "ok",
                            ![c].bpm = IF bpmThrew THEN "threw" ELSE "ok"]
    /\ lookupCalls' = [lookupCalls EXCEPT ![c] = @ + 1]
    /\ pc' = [pc EXCEPT ![c] = "lookup"]
    /\ UNCHANGED <<isInitialized, initializationPromise, analysisCache>>
    /\ UNCHANGED <<args, ret, nativeCalls, fusionCalls>>

(***************************************************************************)
(* searchMultipleDatabases(title, artist): the loop over the databases in  *)
(* their configured order. replies[name] is what db.search() of that       *)
(* database resolved with: Null (searchTunebat and searchMusicBrainz       *)
(* return null on every failure of their own) or a record.                 *)
(***************************************************************************)
Databases == <<"Tunebat", "MusicBrainz">>

\* a loop that puts each record in front of the ones it has (unshift)
RECURSIVE SearchLoopNewestFirst(_, _, _)
SearchLoopNewestFirst(dbs, replies, acc) ==
    IF dbs = <<>>
    THEN acc
    ELSE LET result == replies[Head(dbs)]
         IN  SearchLoopNewestFirst(Tail(dbs), replies,
                 IF result.present
                 THEN <<[result.record EXCEPT !.source = Head(dbs)]>> \o acc
                 ELSE acc)

RECURSIVE SearchLoop(_, _, _)
SearchLoop(dbs, replies, acc) ==
    IF dbs = <<>>
    THEN acc
    ELSE LET result == replies[Head(dbs)]
         IN  SearchLoop(Tail(dbs), replies,
                 IF result.present
                 THEN Append(acc, [result.record EXCEPT !.source = Head(dbs)])
                 ELSE acc)

SearchMultipleDatabases(replies) == SearchLoop(Databases, replies, <<>>)

Reply(record) == [present |-> TRUE, record |-> record]

\* what the two sources can answer
Replies ==
    { [db \in {"Tunebat", "MusicBrainz"} |-> IF db = "Tunebat" THEN t ELSE m] :
          t \in {Null} \cup { Reply(r) : r \in TunebatRecords },
          m \in {Null} \cup { Reply(r) : r \in MusicBrainzRecords } }

(***************************************************************************)
(* searchMultipleDatabases resolves: analyzeSong sets results.webData and  *)
(* goes on. The awaits inside the loop touch nothing but the local array,  *)
(* so the loop is one step.                                                *)
(***************************************************************************)
LookupResolved(c, replies) ==
    /\ pc[c] = "lookup"
    /\ FuseStoreReturn(c, [results[c] EXCEPT
           !.webData = WebData(SearchMultipleDatabases(replies))])
    /\ path' = [path EXCEPT ![c].lookup = "ok"]
    /\ UNCHANGED <<isInitialized, initializationPromise, essentiaExtractor>>
    /\ UNCHANGED <<args, nativeCalls, lookupCalls>>

\* a lookup failure that starts over from an empty results object
LookupRejectedDiscardsNative(c) ==
    /\ pc[c] = "lookup"
    /\ FuseStoreReturn(c, NewResults(args[c]))
    /\ path' = [path EXCEPT ![c].lookup = "failed"]
    /\ UNCHANGED <<isInitialized, initializationPromise, essentiaExtractor>>
    /\ UNCHANGED <<args, nativeCalls, lookupCalls>>

(***************************************************************************)
(* searchMultipleDatabases rejects: analyzeSong catches, leaves            *)
(* results.webData null, and goes on. (The loop catches the failure of a   *)
(* source itself; this is the catch around the call as a whole.)           *)
(***************************************************************************)
LookupRejected(c) ==
    /\ pc[c] = "lookup"
    /\ FuseStoreReturn(c, results[c])
    /\ path' = [path EXCEPT ![c].lookup = "failed"]
    /\ UNCHANGED <<isInitialized, initializationPromise, essentiaExtractor>>
    /\ UNCHANGED <<args, nativeCalls, lookupCalls>>

(***************************************************************************)
(* The fusion policy as a function of its input: the input is drawn in     *)
(* the initial state and generateConfidentResult is applied to it.         *)
(***************************************************************************)
VARIABLES
    fusionInput,   \* the results object handed to generateConfidentResult
    fusionOutput   \* what it returned, Null before the call

fusionVars == <<fusionInput, fusionOutput>>

(***************************************************************************)
(* The other functions that are checked on their own, each under a         *)
(* specification that draws the argument and applies the function.         *)
(***************************************************************************)
VARIABLES
    scraped,       \* getBestData: the caller's array, the results argument
    bestArg,       \* getBestData: the array as it was at the call
    bestData,      \* getBestData: what it returned
    aggregator,    \* which aggregation runs: "analyzer", "scraper" or "none"
    queried,       \* aggregation: what each source queried so far did
    aggregated,    \* aggregation: the local results array
    aggReturned,   \* aggregation: whether the function has returned
    hpcpgram,      \* analyzeKeyFromHPCP: the frames argument
    fpRounding,    \* analyzeKeyFromHPCP: how its floating-point sums round
    keyAnalysis,   \* analyzeKeyFromHPCP: what it returned
    dailyTokenUsage,  \* DeepSeekAIService: this.dailyTokenUsage
    userTokenUsage,   \* DeepSeekAIService: this.userTokenUsage, a Map
    requestCache,     \* DeepSeekAIService: the keys of this.requestCache
    lastMode,         \* DeepSeekAIService: this.lastMode
    apiRequests       \* DeepSeekAIService: the API requests in flight

bestVars == <<scraped, bestArg, bestData>>

lookupVars == <<aggregator, queried, aggregated, aggReturned>>

keyVars == <<hpcpgram, fpRounding, keyAnalysis>>

tokenVars == <<dailyTokenUsage, userTokenUsage, requestCache, lastMode,
               apiRequests>>

\* the value of an output variable before the function has returned
NotCalled == [returned |-> FALSE]

\* what a function returned
ReturnedValue(v) == [returned |-> TRUE, value |-> v]

FusionIdle == fusionInput = NewResults(NoRequest) /\ fusionOutput = Null

BestIdle == scraped = <<>> /\ bestArg = <<>> /\ bestData = NotCalled

LookupIdle ==
    /\ aggregator = "none"
    /\ queried = <<>>
    /\ aggregated = <<>>
    /\ aggReturned = FALSE

KeyIdle == hpcpgram = <<>> /\ fpRounding = "exact" /\ keyAnalysis = NotCalled

\* the API requests of the AI-insight service that can be in flight at once
MaxRequests == 2

\* the DeepSeekAIService after its constructor: no usage, nothing cached, no
\* request in flight
TokensIdle ==
    /\ dailyTokenUsage = 0
    /\ userTokenUsage = [u \in {} |-> 0]
    /\ requestCache = {}
    /\ lastMode = "ai"
    /\ apiRequests = [r \in 1..MaxRequests |-> Null]

\* the variables that analyzeSong and its callbacks leave alone
pureVars == <<fusionVars, bestVars, lookupVars, keyVars, tokenVars>>

vars == <<isInitialized, initializationPromise, essentiaExtractor,
          analysisCache, pc, args, results, ret,
          nativeCalls, lookupCalls, fusionCalls, path, fusionInput,
          fusionOutput, scraped, bestArg, bestData, aggregator, queried, aggregated,
          aggReturned, hpcpgram, fpRounding, keyAnalysis, dailyTokenUsage,
          userTokenUsage, requestCache, lastMode, apiRequests>>

Next ==
    \/ \E c \in Calls, req \in Requests :
           AnalyzeSong(c, req) /\ UNCHANGED pureVars
    \/ \E outcome \in {"loaded", "error", "undefined"} :
           LoadEssentiaScripts(outcome) /\ UNCHANGED pureVars
    \/ \E ok \in BOOLEAN : EssentiaReady(ok) /\ UNCHANGED pureVars
    \/ \E c \in Calls : AnalyzeInitRejected(c) /\ UNCHANGED pureVars
    \/ \E c \in Calls : AnalyzeCheckCache(c) /\ UNCHANGED pureVars
    \/ \E c \in Calls : NativeRejected(c) /\ UNCHANGED pureVars
    \/ \E c \in Calls, keyThrew \in BOOLEAN, keyEstimate \in KeyEstimates,
          bpmThrew \in BOOLEAN, bpmEstimate \in TempoEstimates :
           NativeResolved(c, keyThrew, keyEstimate, bpmThrew, bpmEstimate)
               /\ UNCHANGED pureVars
    \/ \E c \in Calls, replies \in Replies :
           LookupResolved(c, replies) /\ UNCHANGED pureVars
    \/ \E c \in Calls : LookupRejected(c) /\ UNCHANGED pureVars

Init ==
    /\ Constructor
    /\ FusionIdle
    /\ BestIdle
    /\ LookupIdle
    /\ KeyIdle
    /\ TokensIdle

Spec == Init /\ [][Next]_vars

\* the confidences the native estimates of a fusion input carry
ConfidenceLevels == {0, 50, 85, 90}

\* native results of a fusion input
NativeInputs ==
    { NativeResult([key |-> k, confidence |-> kc], [bpm |-> b, confidence |-> bc]) :
          k \in {"G major"}, kc \in ConfidenceLevels,
          b \in {100}, bc \in ConfidenceLevels }

\* lookup records of a fusion input, with the tier a source attaches
LookupRecords ==
    { [key |-> "C major", bpm |-> <<"1", "2", "0">>, confidence |-> t, source |-> "A"] :
          t \in Tiers }
    \cup
    { [key |-> "D minor", bpm |-> <<"1", "2", "8">>, confidence |-> t, source |-> "B"] :
          t \in Tiers }
    \cup
    { [key |-> "E minor", bpm |-> <<"x">>, confidence |-> "low", source |-> "C"] }

RECURSIVE ListsUpTo(_, _)
ListsUpTo(S, n) ==
    IF n = 0
    THEN {<<>>}
    ELSE LET shorter == ListsUpTo(S, n - 1)
         IN  shorter \cup { Append(l, x) : l \in shorter, x \in S }

FusionInputs ==
    { [NewResults(NoRequest) EXCEPT !.analysis = a, !.webData = w] :
          a \in {Null} \cup NativeInputs,
          w \in {Null} \cup { WebData(l) : l \in ListsUpTo(LookupRecords, MaxRecords) } }

FusionInit ==
    /\ Constructor
    /\ fusionInput \in FusionInputs
    /\ fusionOutput = Null
    /\ BestIdle
    /\ LookupIdle
    /\ KeyIdle
    /\ TokensIdle

Fuse ==
    /\ fusionOutput = Null
    /\ fusionOutput' = GenerateConfidentResult(fusionInput)
    /\ UNCHANGED fusionInput
    /\ UNCHANGED analyzerVars
    /\ UNCHANGED callVars
    /\ UNCHANGED <<bestVars, lookupVars, keyVars, tokenVars>>

FusionNext == Fuse

SpecFusion == FusionInit /\ [][FusionNext]_vars

(***************************************************************************)
(* WebScrapingService.getBestData(results): null for the empty list, else  *)
(* the first element after the stable sort by descending confidence tier.  *)
(***************************************************************************)
ConfidenceOrder(tier) ==
    CASE tier = "high" -> 3
      [] tier = "medium" -> 2
      [] tier = "low" -> 1

\* x put behind every element of sorted that does not compare after it
RECURSIVE InsertByConfidence(_, _)
InsertByConfidence(sorted, x) ==
    IF sorted = <<>>
    THEN <<x>>
    ELSE IF ConfidenceOrder(x.confidence) - ConfidenceOrder(Head(sorted).confidence) > 0
    THEN <<x>> \o sorted
    ELSE <<Head(sorted)>> \o InsertByConfidence(Tail(sorted), x)

RECURSIVE SortByConfidence(_, _)
SortByConfidence(list, sorted) ==
    IF list = <<>>
    THEN sorted
    ELSE SortByConfidence(Tail(list), InsertByConfidence(sorted, Head(list)))

\* the first record of the list as it is given
GetBestDataUnsorted(list) ==
    IF Len(list) = 0
    THEN Null
    ELSE [present |-> TRUE, record |-> Head(list)]

GetBestData(list) ==
    IF Len(list) = 0
    THEN Null
    ELSE [present |-> TRUE, record |-> Head(SortByConfidence(list, <<>>))]

(***************************************************************************)
(* The claims on the fusion policy, checked under SpecFusion.              *)
(***************************************************************************)
Fused == fusionOutput # Null

NativeExists == fusionInput.analysis.present

LookupExists ==
    fusionInput.webData.present /\ Len(fusionInput.webData.list) > 0

BothAboveThreshold ==
    /\ NativeExists
    /\ fusionInput.analysis.key.confidence > ConfidenceThreshold
    /\ fusionInput.analysis.bpm.confidence > ConfidenceThreshold

C2_HighIffBothAbove ==
    Fused =>
        /\ (fusionOutput.confidence = "high") <=> BothAboveThreshold
        /\ (fusionOutput.method = "essentia_analysis") <=> BothAboveThreshold
        /\ BothAboveThreshold =>
               /\ fusionOutput.key = fusionInput.analysis.key.key
               /\ fusionOutput.bpm = fusionInput.analysis.bpm.bpm

\* a key confidence equal to the threshold next to a tempo confidence above
\* it: the result is not of tier high
C2_Witness ==
    /\ Fused
    /\ NativeExists
    /\ fusionInput.analysis.key.confidence = ConfidenceThreshold
    /\ fusionInput.analysis.bpm.confidence > ConfidenceThreshold
    /\ fusionOutput.confidence = "medium"

\* C3: with no native result and at least one lookup record, the result has
\* the lookup method and tier medium, and its key and bpm are those of the
\* record of the highest tier (getBestData), wherever it stands in the list.
C3_LookupUsesBestOf ==
    (Fused /\ ~NativeExists /\ LookupExists) =>
        LET best == GetBestData(fusionInput.webData.list).record
        IN  /\ fusionOutput.method = "web_database"
            /\ fusionOutput.confidence = "medium"
            /\ fusionOutput.key = best.key
            /\ fusionOutput.bpm = ParseIntOrZero(best.bpm)

\* C4: with no native result and no lookup record (the list null or empty)
\* the result is none / low / Unknown / 0, and no other input gives tier low.
C4_LowIffNoData ==
    Fused =>
        /\ (~NativeExists /\ ~LookupExists) =>
               /\ fusionOutput.method = "none"
               /\ fusionOutput.confidence = "low"
               /\ fusionOutput.key = "Unknown"
               /\ fusionOutput.bpm = 0
        /\ (fusionOutput.confidence = "low") => (~NativeExists /\ ~LookupExists)

\* no native result and an empty (not null) list of lookup records
C4_Witness ==
    /\ Fused
    /\ ~NativeExists
    /\ fusionInput.webData.present
    /\ fusionInput.webData.list = <<>>
    /\ fusionOutput.method = "none"
    /\ fusionOutput.confidence = "low"

(***************************************************************************)
(* The claims on analyzeSong, checked under Spec.                          *)
(***************************************************************************)
Returned(c) == pc[c] = "done"

Missed(c) == Returned(c) /\ path[c].cache = "miss"

Hit(c) == Returned(c) /\ path[c].cache = "hit"

\* C5: no call of analyzeSong ends by throwing (rejecting), whichever of its
\* collaborators fail.
C5_NeverThrows == \A c \in Calls : pc[c] # "thrown"

\* C6: a call that passes the cache check after a call with the identical
\* (title, artist, size) has returned from a miss returns at once the bundle
\* stored under its key, one that a call with this key computed and returned,
\* and leaves the cache as it is; a call that hit the cache has invoked
\* neither essentiaAnalysis nor searchMultipleDatabases nor
\* generateConfidentResult.
C6_HitStep ==
    \A c \in Calls :
        ( /\ pc[c] = "awaitInit"
          /\ pc'[c] \notin {"awaitInit", "thrown"}
          /\ \E d \in Calls : Missed(d) /\ args[d] = args[c] )
        => /\ pc'[c] = "done"
           /\ path'[c].cache = "hit"
           /\ ret'[c] = analysisCache[KeyOf(args[c])]
           /\ \E d \in Calls :
                  Missed(d) /\ KeyOf(args[d]) = KeyOf(args[c]) /\ ret[d] = ret'[c]
           /\ analysisCache' = analysisCache

C6_HitCallsNothing ==
    \A c \in Calls :
        Hit(c) => nativeCalls[c] = 0 /\ lookupCalls[c] = 0 /\ fusionCalls[c] = 0

\* C6: every step satisfies the hit-step condition above, and in every state a
\* call that hit the cache has invoked neither path nor the fusion policy.
C6_CacheHit == [][C6_HitStep]_vars /\ []C6_HitCallsNothing

\* a call returned from the cache what an earlier call with the identical
\* triple had computed
C6_Witness ==
    \E c, d \in Calls :
        /\ Hit(c) /\ Missed(d)
        /\ args[c] = args[d]
        /\ ret[c] = ret[d]
        /\ ret[c].finalResult.method = "essentia_analysis"

\* C7: a cache hit happens only on equality of the (title, artist, size)
\* triple: a call that hits the cache receives a bundle that was stored for
\* its own title and artist, never one stored for a different triple.
C7_ExactTriple ==
    \A c \in Calls :
        Hit(c) => ret[c].title = args[c].title /\ ret[c].artist = args[c].artist

\* C8: on a miss a failure of the native path does not keep the lookup path
\* from running, a failure of the lookup path leaves the native result in
\* the bundle, the failed path is null in the input of the fusion policy, and
\* the final result is the fusion of exactly these two inputs.
C8_PathIndependence ==
    \A c \in Calls :
        /\ path[c].native = "failed" => lookupCalls[c] = 1
        /\ Missed(c) =>
               /\ nativeCalls[c] = 1
               /\ lookupCalls[c] = 1
               /\ path[c].native \in {"ok", "failed"}
               /\ path[c].lookup \in {"ok", "failed"}
               /\ ret[c].analysis.present <=> path[c].native = "ok"
               /\ ret[c].webData.present <=> path[c].lookup = "ok"
               /\ ret[c].finalResult =
                      GenerateConfidentResult([ret[c] EXCEPT !.finalResult = Null])

\* one call whose native path failed and whose lookup gave the result, and
\* one call whose lookup failed and whose native result was used
C8_Witness ==
    \E c, d \in Calls :
        /\ Missed(c) /\ path[c].native = "failed" /\ path[c].lookup = "ok"
        /\ ret[c].finalResult.method = "web_database"
        /\ Missed(d) /\ path[d].native = "ok" /\ path[d].lookup = "failed"
        /\ ret[d].finalResult.method = "essentia_analysis"

\* C9: a call has invoked the fusion policy once when it has returned from a
\* miss and never otherwise: not before both of its paths have ended, and
\* not on a cache hit.
C9_FusionOnce ==
    \A c \in Calls :
        /\ fusionCalls[c] \in {0, 1}
        /\ fusionCalls[c] = 1 <=> Missed(c)
        /\ fusionCalls[c] = 1 =>
               path[c].native # "none" /\ path[c].lookup # "none"
        /\ path[c].cache = "hit" => fusionCalls[c] = 0

\* a call that fused once after both paths, and a call that hit the cache
\* and did not fuse
C9_Witness ==
    \E c, d \in Calls :
        /\ Missed(c) /\ fusionCalls[c] = 1
        /\ path[c].native = "ok" /\ path[c].lookup = "ok"
        /\ Hit(d) /\ fusionCalls[d] = 0

ExtractorThrew(c) == path[c].key = "threw" \/ path[c].bpm = "threw"

C12_RecommendationByTier ==
    Fused =>
        fusionOutput.recommendation =
            GenerateRecommendation("", 0, fusionOutput.confidence)

(***************************************************************************)
(* The claims on the cache under interleaved calls, checked under Spec.    *)
(***************************************************************************)
\* call c returns from a miss in this step: it fuses, stores and returns
StoresNow(c) == pc[c] = "lookup" /\ pc'[c] = "done"

\* C13, as claimed: once a cache key has an entry, no step removes the entry
\* and no step replaces its value by a different bundle.
C13_NeverReplacedStep ==
    \A k \in DOMAIN analysisCache :
        /\ k \in DOMAIN analysisCache'
        /\ analysisCache'[k] = analysisCache[k]

C13_NeverReplaced == [][C13_NeverReplacedStep]_vars

\* C13, amended: once a cache key has an entry, no step removes the entry;
\* a step replaces its value only when a call that missed on this key (it
\* passed the cache check before the entry was stored) returns, and the new
\* value is the bundle this call returns.
C13_AppendOnlyStep ==
    \A k \in DOMAIN analysisCache :
        /\ k \in DOMAIN analysisCache'
        /\ analysisCache'[k] # analysisCache[k] =>
               \E c \in Calls :
                   /\ StoresNow(c)
                   /\ path[c].cache = "miss"
                   /\ KeyOf(args[c]) = k
                   /\ analysisCache'[k] = ret'[c]

C13_AppendOnly == [][C13_AppendOnlyStep]_vars

\* two calls missed on one key and returned different bundles, and the entry
\* is the bundle of one of them: the other's bundle was replaced
C13_Witness ==
    \E c, d \in Calls :
        /\ c # d
        /\ Missed(c) /\ Missed(d)
        /\ KeyOf(args[c]) = KeyOf(args[d])
        /\ ret[c] # ret[d]
        /\ analysisCache[KeyOf(args[d])] = ret[d]

\* C14: a call that passes the cache check while its key has no entry misses
\* and starts the native path, however many calls with this key are in
\* flight; a call that missed ran the native and the lookup path once each
\* and returns the bundle fused from its own results; when it returns, the
\* entry of its key becomes its bundle and no other entry changes, so after
\* concurrent calls the key has one entry, the bundle of the call that
\* stored last; a call that passes the check once the key has an entry
\* returns that entry.
C14_Step ==
    \A c \in Calls :
        LET key == KeyOf(args[c])
        IN  /\ ( /\ pc[c] = "awaitInit"
                 /\ pc'[c] \notin {"awaitInit", "thrown"}
                 /\ ~(key \in DOMAIN analysisCache) )
               => /\ pc'[c] = "reading"
                  /\ nativeCalls'[c] = 1
                  /\ analysisCache' = analysisCache
            /\ ( /\ pc[c] = "awaitInit"
                 /\ pc'[c] \notin {"awaitInit", "thrown"}
                 /\ key \in DOMAIN analysisCache )
               => /\ pc'[c] = "done"
                  /\ ret'[c] = analysisCache[key]
                  /\ analysisCache' = analysisCache
            /\ StoresNow(c)
               => /\ DOMAIN analysisCache' = DOMAIN analysisCache \cup {key}
                  /\ analysisCache'[key] = ret'[c]
                  /\ \A k \in DOMAIN analysisCache :
                         k # key => analysisCache'[k] = analysisCache[k]
                  /\ ret'[c].title = args[c].title
                  /\ ret'[c].artist = args[c].artist
                  /\ ret'[c].analysis = results[c].analysis

C14_Returned ==
    \A c \in Calls :
        Missed(c) =>
            /\ nativeCalls[c] = 1 /\ lookupCalls[c] = 1
            /\ ret[c].finalResult = GenerateConfidentResult(ret[c])
            /\ KeyOf(args[c]) \in DOMAIN analysisCache
            /\ \E d \in Calls :
                   /\ Missed(d)
                   /\ KeyOf(args[d]) = KeyOf(args[c])
                   /\ analysisCache[KeyOf(args[c])] = ret[d]

C15_TempoFailureAbsorbed ==
    \A c \in Calls :
        (Missed(c) /\ path[c].bpm = "threw") =>
            /\ ret[c].analysis.present
            /\ ret[c].analysis.bpm = ZeroBPM
            /\ path[c].key = "ok" => ret[c].analysis.key \in KeyEstimates
            /\ ret[c].finalResult.key = ret[c].analysis.key.key
            /\ ret[c].finalResult.bpm = 0
            /\ ret[c].finalResult.confidence \in Tiers
            /\ ret[c].finalResult.method = "essentia_analysis_fallback"

\* the key was detected, the rhythm extractor threw, and the call returned
\* the detected key with bpm 0
C15_Witness ==
    \E c \in Calls :
        /\ Missed(c)
        /\ path[c].key = "ok"
        /\ path[c].bpm = "threw"
        /\ ret[c].analysis.key = [key |-> "C major", confidence |-> 90]
        /\ ret[c].analysis.bpm = ZeroBPM
        /\ ret[c].finalResult.key = "C major"
        /\ ret[c].finalResult.bpm = 0

(***************************************************************************)
(* getBestData as a function of its argument: the list is drawn in the     *)
(* initial state and getBestData is applied to it. results.sort sorts the  *)
(* caller's array in place.                                                *)
(***************************************************************************)
MaxScraped == 3

BestInit ==
    /\ Constructor
    /\ FusionIdle
    /\ scraped \in ListsUpTo(LookupRecords, MaxScraped)
    /\ bestArg = scraped
    /\ bestData = NotCalled
    /\ LookupIdle
    /\ KeyIdle
    /\ TokensIdle

CallGetBestData ==
    /\ bestData = NotCalled
    /\ bestData' = ReturnedValue(GetBestData(scraped))
    /\ scraped' = SortByConfidence(scraped, <<>>)
    /\ UNCHANGED bestArg
    /\ UNCHANGED <<analyzerVars, callVars, fusionVars, lookupVars, keyVars, tokenVars>>

BestNext == CallGetBestData

SpecBest == BestInit /\ [][BestNext]_vars

\* C17: for the empty list getBestData returns null; for a non-empty list it
\* returns a record of the list whose tier is maximal (high 3 > medium 2 >
\* low 1), and of the records of that tier the one that comes first in the
\* list as it was given.
C17_BestOf ==
    bestData.returned =>
        IF bestArg = <<>>
        THEN bestData.value = Null
        ELSE /\ bestData.value.present
             /\ \E i \in 1..Len(bestArg) :
                    /\ bestData.value.record = bestArg[i]
                    /\ \A j \in 1..Len(bestArg) :
                           ConfidenceOrder(bestArg[j].confidence)
                               <= ConfidenceOrder(bestArg[i].confidence)
                    /\ \A j \in 1..(i - 1) :
                           ConfidenceOrder(bestArg[j].confidence)
                               < ConfidenceOrder(bestArg[i].confidence)

\* a low record in front of two different high records: the first of the two
\* high records was returned
C17_Witness ==
    /\ bestData.returned
    /\ Len(bestArg) = 3
    /\ bestArg[1].confidence = "low"
    /\ bestArg[2].confidence = "high"
    /\ bestArg[3].confidence = "high"
    /\ bestArg[2] # bestArg[3]
    /\ bestData.value.record = bestArg[2]

(***************************************************************************)
(* The two aggregations, source by source: searchMultipleDatabases of the  *)
(* analyzer and scrapeAllSources of WebScrapingService. Each awaits its    *)
(* sources one after the other in the configured order.                    *)
(***************************************************************************)
\* the order of the three awaits in scrapeAllSources
Scrapers == <<"Tunebat", "Reddit", "MusicBrainz">>

Sources(a) == IF a = "analyzer" THEN Databases ELSE Scrapers

Undefined == [defined |-> FALSE]

Defined(v) == [defined |-> TRUE, value |-> v]

\* the ScrapedMusicData a scrape method builds
ScrapedRecords(source) ==
    CASE source = "Tunebat" ->
             { [key |-> Defined(k), bpm |-> Defined(b), confidence |-> "medium",
                source |-> "Tunebat"] : k \in {"C major", "A minor"}, b \in {100, 128} }
      [] source = "Reddit" ->
             { [key |-> Defined(k), bpm |-> Defined(b), confidence |-> "low",
                source |-> "Reddit Community"] :
                   k \in {"C major", "A minor"}, b \in {100, 128} }
      [] source = "MusicBrainz" ->
             { [key |-> Undefined, bpm |-> Undefined, confidence |-> "low",
                source |-> "MusicBrainz"] }

\* the ScrapingResult of a scrape method: success with data, or the failure
\* its catch returns. The methods catch everything, so none rejects. The
\* outcomes of the three are taken as independent of each other.
ScrapingResults(source) ==
    { [success |-> TRUE, data |-> Reply(r)] : r \in ScrapedRecords(source) }
    \cup { [success |-> FALSE, data |-> Null] }

\* what awaiting db.search() can give the loop of searchMultipleDatabases:
\* an exception for its catch, null, or a record
DatabaseOutcomes(db) ==
    { [threw |-> TRUE, reply |-> Null], [threw |-> FALSE, reply |-> Null] }
    \cup { [threw |-> FALSE, reply |-> Reply(r)] :
               r \in IF db = "Tunebat" THEN TunebatRecords ELSE MusicBrainzRecords }

\* if (result.success && result.data) results.push(result.data)
ScrapePush(acc, result) ==
    IF result.success /\ result.data.present
    THEN Append(acc, result.data.record)
    ELSE acc

LookupInit ==
    /\ Constructor
    /\ FusionIdle
    /\ BestIdle
    /\ KeyIdle
    /\ TokensIdle
    /\ aggregator \in {"analyzer", "scraper"}
    /\ queried = <<>>
    /\ aggregated = <<>>
    /\ aggReturned = FALSE

\* one round of the for loop of searchMultipleDatabases
QueryDatabase(outcome) ==
    /\ aggregator = "analyzer"
    /\ ~aggReturned
    /\ Len(queried) < Len(Databases)
    /\ LET db == Databases[Len(queried) + 1]
       IN  /\ outcome \in DatabaseOutcomes(db)
           /\ aggregated' =
                  IF outcome.threw
                  THEN aggregated
                  ELSE SearchLoop(<<db>>, [d \in {db} |-> outcome.reply], aggregated)
    /\ queried' = Append(queried, outcome)
    /\ UNCHANGED <<aggregator, aggReturned>>
    /\ UNCHANGED <<analyzerVars, callVars, fusionVars, bestVars, keyVars, tokenVars>>

\* one of the three awaits of scrapeAllSources with the push after it
ScrapeSource(result) ==
    /\ aggregator = "scraper"
    /\ ~aggReturned
    /\ Len(queried) < Len(Scrapers)
    /\ result \in ScrapingResults(Scrapers[Len(queried) + 1])
    /\ aggregated' = ScrapePush(aggregated, result)
    /\ queried' = Append(queried, result)
    /\ UNCHANGED <<aggregator, aggReturned>>
    /\ UNCHANGED <<analyzerVars, callVars, fusionVars, bestVars, keyVars, tokenVars>>

\* return results
ReturnAggregated ==
    /\ aggregator \in {"analyzer", "scraper"}
    /\ ~aggReturned
    /\ Len(queried) = Len(Sources(aggregator))
    /\ aggReturned' = TRUE
    /\ UNCHANGED <<aggregator, queried, aggregated>>
    /\ UNCHANGED <<analyzerVars, callVars, fusionVars, bestVars, keyVars, tokenVars>>

LookupNext ==
    \/ \E outcome \in DatabaseOutcomes("Tunebat") \cup DatabaseOutcomes("MusicBrainz") :
           QueryDatabase(outcome)
    \/ \E result \in UNION { ScrapingResults(Scrapers[i]) : i \in 1..Len(Scrapers) } :
           ScrapeSource(result)
    \/ ReturnAggregated

SpecLookup == LookupInit /\ [][LookupNext]_vars

\* whether the i-th source queried gave a record
SourceReplied(i) ==
    IF aggregator = "analyzer"
    THEN ~queried[i].threw /\ queried[i].reply.present
    ELSE queried[i].success /\ queried[i].data.present

\* the record the i-th source gave
SourceRecord(i) ==
    IF aggregator = "analyzer" THEN queried[i].reply.record ELSE queried[i].data.record

\* the position, in the configured order, of the k-th source that replied
KthReplied(k) ==
    CHOOSE i \in 1..Len(queried) :
        /\ SourceReplied(i)
        /\ Cardinality({ j \in 1..i : SourceReplied(j) }) = k

\* C16: whichever sources throw, fail or return nothing, the aggregation
\* goes on to query every configured source and returns; the sequence it
\* holds has one record for each source that replied and none for the
\* others, in the configured order of the sources, each the record that
\* source gave and, in searchMultipleDatabases, tagged with the name of the
\* source.
C16_Aggregation ==
    /\ Len(aggregated) = Cardinality({ i \in 1..Len(queried) : SourceReplied(i) })
    /\ \A k \in 1..Len(aggregated) :
           LET i == KthReplied(k)
           IN  IF aggregator = "analyzer"
               THEN /\ aggregated[k] = [SourceRecord(i) EXCEPT !.source = Databases[i]]
                    /\ aggregated[k].source = Databases[i]
               ELSE aggregated[k] = SourceRecord(i)
    /\ aggReturned => Len(queried) = Len(Sources(aggregator))
    /\ (~aggReturned /\ Len(queried) < Len(Sources(aggregator)))
           => IF aggregator = "analyzer"
              THEN ENABLED (\E outcome \in DatabaseOutcomes(Databases[Len(queried) + 1]) :
                                QueryDatabase(outcome))
              ELSE ENABLED (\E result \in ScrapingResults(Scrapers[Len(queried) + 1]) :
                                ScrapeSource(result))

\* the first of three sources failed, the other two replied, and the returned
\* sequence is their two records in the configured order
C16_Witness ==
    /\ aggregator = "scraper"
    /\ aggReturned
    /\ Len(queried) = 3
    /\ ~queried[1].success
    /\ queried[2].success /\ queried[3].success
    /\ Len(aggregated) = 2
    /\ aggregated[1].source = "Reddit Community"
    /\ aggregated[2].source = "MusicBrainz"

(***************************************************************************)
(* The key estimator: getKeyProfiles, calculateCorrelation and             *)
(* analyzeKeyFromHPCP.                                                     *)
(*                                                                         *)
(* Chroma values are integer multiples of a unit. A vector of rationals is  *)
(* a record [scaled, by, rounding]: element i is scaled[i] / by units. A   *)
(* correlation is a record [num, den2] that stands for num / sqrt(den2),   *)
(* den2 > 0, and [num |-> 0, den2 |-> 0] is NaN.                           *)
(*                                                                         *)
(* JavaScript computes in binary floating point, and the model takes the   *)
(* exact value of a correlation except at the two values where a rounding  *)
(* residue decides what the estimator reports. rounding names the case.    *)
(*                                                                         *)
(* Where the exact variance term sum1Sq - sum1 * sum1 / n is 0 (a constant *)
(* vector other than all zero), the computed term is 0, or a residue above *)
(* or below 0, whichever the values give: for the constant 0.7 it is 0,    *)
(* for 0.3 it is 4.4e-16 and the correlation 1.2e-8, for 0.1 the           *)
(* correlation is -8.7e-9, and for 0.255.. the term is negative and        *)
(* Math.sqrt gives NaN.                                                    *)
(*                                                                         *)
(* Where the exact correlation is 1 (the vector is a * profile + b with    *)
(* a > 0), the computed quotient is 1, or a residue above or below 1: for  *)
(* a profile itself it is 1, for 0.837.. * profile it is                   *)
(* 1.0000000000000002, and for the mean of a profile, the all-one frame    *)
(* and the all-one frame it is 1.0000000000000013.                         *)
(***************************************************************************)
Bins == 12

Notes == <<"C", "C#", "D", "D#", "E", "F", "F#", "G", "G#", "A", "A#", "B">>

MajorScale == {0, 2, 4, 5, 7, 9, 11}

\* the harmonic minor scale, with the raised seventh
HarmonicMinorScale == {0, 2, 3, 5, 7, 8, 11}

MinorScale == {0, 2, 3, 5, 7, 8, 10}

\* a profile without the wrap of (index + interval) at 12
ScaleProfileNoWrap(index, scale) ==
    [noteIndex \in 1..Bins |->
        IF \E interval \in scale : index + interval = noteIndex - 1
        THEN 1
        ELSE 0]

\* new Array(12).fill(0) with 1.0 at (index + interval) % 12 for each interval
ScaleProfile(index, scale) ==
    [noteIndex \in 1..Bins |->
        IF \E interval \in scale : (index + interval) % Bins = noteIndex - 1
        THEN 1
        ELSE 0]

\* the profiles object as the sequence of its entries in insertion order:
\* for each note its major profile, then its minor profile
GetKeyProfiles ==
    [e \in 1..(2 * Len(Notes)) |->
        LET index == (e - 1) \div 2
        IN  IF e % 2 = 1
            THEN [name |-> Notes[index + 1] \o " major",
                  profile |-> ScaleProfile(index, MajorScale)]
            ELSE [name |-> Notes[index + 1] \o " minor",
                  profile |-> ScaleProfile(index, MinorScale)]]

\* "exact", "zero": no residue is left; else the residue that is left where
\* the exact variance term is 0 or the exact correlation is 1
Roundings == {"exact", "zero", "positive", "negative", "nan"}

\* an array of exact numbers
Vector(values) == [scaled |-> values, by |-> 1, rounding |-> "exact"]

RECURSIVE SumOver(_, _)
SumOver(f, n) == IF n = 0 THEN 0 ELSE f[n] + SumOver(f, n - 1)

ZeroCorrelation == [num |-> 0, den2 |-> 1]

MinusOne == [num |-> -1, den2 |-> 1]

NaN == [num |-> 0, den2 |-> 0]

\* a correlation of the size of a rounding residue
Residue(sign) == [num |-> sign, den2 |-> 100000000]

\* a correlation that is 1 but for a rounding residue
AboutOne(sign) == [num |-> 100 + sign, den2 |-> 10000]

(***************************************************************************)
(* calculateCorrelation(array1, array2). With array1 = a / f and           *)
(* array2 = b / g the code's num is (n*Sum(ab) - Sum(a)*Sum(b)) / (n*f*g)  *)
(* and its den is sqrt((n*Sum(aa) - Sum(a)^2) * (n*Sum(bb) - Sum(b)^2))    *)
(* / (n*f*g); den is 0 exactly when the product under the root is 0, and   *)
(* num / den is the quotient below. array2 is a profile, whose sums are    *)
(* exact.                                                                  *)
(***************************************************************************)
CalculateCorrelation(array1, array2) ==
    IF Len(array1.scaled) # Len(array2.scaled)
    THEN ZeroCorrelation
    ELSE LET n == Len(array1.scaled)
             a == array1.scaled
             b == array2.scaled
             sum1 == SumOver(a, n)
             sum2 == SumOver(b, n)
             sum1Sq == SumOver([i \in 1..n |-> a[i] * a[i]], n)
             sum2Sq == SumOver([i \in 1..n |-> b[i] * b[i]], n)
             pSum == SumOver([i \in 1..n |-> a[i] * b[i]], n)
             num == n * pSum - sum1 * sum2
             var1 == n * sum1Sq - sum1 * sum1
             var2 == n * sum2Sq - sum2 * sum2
             den2 == var1 * var2
         IN  IF den2 # 0
             THEN IF /\ num > 0 /\ num * num = den2
                     /\ array1.rounding \in {"positive", "negative"}
                  THEN AboutOne(IF array1.rounding = "positive" THEN 1 ELSE -1)
                  ELSE [num |-> num, den2 |-> den2]
             ELSE IF \/ var2 = 0 \/ var1 # 0
                     \/ sum1Sq = 0                    \* all zero: exact
                     \/ array1.rounding \in {"exact", "zero"}
             THEN ZeroCorrelation
             ELSE IF array1.rounding = "nan"
             THEN NaN
             ELSE Residue(IF array1.rounding = "positive" THEN 1 ELSE -1)

SignedSquare(x) == IF x < 0 THEN -(x * x) ELSE x * x

\* r1 > r2 for r = num / sqrt(den2); false when either is NaN
Greater(r1, r2) ==
    /\ r1.den2 # 0 /\ r2.den2 # 0
    /\ SignedSquare(r1.num) * r2.den2 > SignedSquare(r2.num) * r1.den2

\* Math.max(0, r)
MaxZero(r) == IF r.num < 0 THEN ZeroCorrelation ELSE r

\* a frame of the chromagram; a missing frame (null, undefined) is Null
Frame(values) == [present |-> TRUE, values |-> values]

\* a test that takes any frame that is there
ValidFrameAnyLength(frame) == frame.present

\* frame && frame.length === 12
ValidFrame(frame) == frame.present /\ Len(frame.values) = Bins

\* frame.forEach((value, index) => avgHPCP[index] += value)
AddFrame(avgHPCP, frame) ==
    [index \in 1..Bins |->
        avgHPCP[index] + (IF index <= Len(frame.values) THEN frame.values[index] ELSE 0)]

\* the forEach over hpcpgram: the running sum and the count of valid frames
RECURSIVE AverageLoop(_, _)
AverageLoop(frames, acc) ==
    IF frames = <<>>
    THEN acc
    ELSE AverageLoop(Tail(frames),
             IF ValidFrame(Head(frames))
             THEN [avgHPCP |-> AddFrame(acc.avgHPCP, Head(frames)),
                   frameCount |-> acc.frameCount + 1]
             ELSE acc)

SumHPCP(frames) ==
    AverageLoop(frames, [avgHPCP |-> [index \in 1..Bins |-> 0], frameCount |-> 0])

\* a selection that lets a later key of equal correlation take over
RECURSIVE BestLoopLast(_, _, _)
BestLoopLast(correlations, e, best) ==
    IF e > Len(correlations)
    THEN best
    ELSE BestLoopLast(correlations, e + 1,
             IF ~Greater(best.maxCorrelation, correlations[e].correlation)
             THEN [bestKey |-> correlations[e].name,
                   maxCorrelation |-> correlations[e].correlation]
             ELSE best)

\* the forEach over Object.entries(correlations), from entry e on
RECURSIVE BestLoop(_, _, _)
BestLoop(correlations, e, best) ==
    IF e > Len(correlations)
    THEN best
    ELSE BestLoop(correlations, e + 1,
             IF Greater(correlations[e].correlation, best.maxCorrelation)
             THEN [bestKey |-> correlations[e].name,
                   maxCorrelation |-> correlations[e].correlation]
             ELSE best)

\* analyzeKeyFromHPCP from "Normalize" on, for frameCount > 0
ClassifyHPCP(sum, rounding) ==
    LET avgHPCP == [scaled |-> sum.avgHPCP, by |-> sum.frameCount,
                    rounding |-> rounding]
        keyProfiles == GetKeyProfiles
        correlations ==
            [e \in 1..Len(keyProfiles) |->
                [name |-> keyProfiles[e].name,
                 correlation |->
                     CalculateCorrelation(avgHPCP, Vector(keyProfiles[e].profile))]]
        best == BestLoop(correlations, 1,
                         [bestKey |-> "C major", maxCorrelation |-> MinusOne])
    IN  [key |-> best.bestKey,
         confidence |-> MaxZero(best.maxCorrelation),
         allCorrelations |-> correlations]

\* an estimator without the test for frameCount === 0
AnalyzeKeyAlwaysClassifies(frames, rounding) ==
    ClassifyHPCP(SumHPCP(frames), rounding)

\* the key estimate; the confidence of a classified chromagram is a
\* correlation record, that of the Unknown key the number 0
AnalyzeKeyFromHPCP(frames, rounding) ==
    LET sum == SumHPCP(frames)
    IN  IF sum.frameCount = 0 THEN UnknownKey ELSE ClassifyHPCP(sum, rounding)

(***************************************************************************)
(* analyzeKeyFromHPCP as a function of its argument: the chromagram is     *)
(* drawn in the initial state and the estimator is applied to it.          *)
(***************************************************************************)
MaxFrames == 2

\* the frames of a chromagram: each key profile as a frame, the all-zero
\* frame, two constant frames, a frame with weights, a frame of five bins and
\* a missing frame
Frames ==
    { Frame(GetKeyProfiles[e].profile) : e \in 1..Len(GetKeyProfiles) }
    \cup { Frame([index \in 1..Bins |-> v]) : v \in {0, 1, 2} }
    \cup { Frame(<<2, 0, 0, 0, 1, 0, 0, 1, 0, 0, 0, 0>>),
           Frame(<<1, 0, 2, 0, 1>>),
           Null }

\* whether the mean of the valid frames is a constant other than 0; for
\* such a chromagram, and for one of a perfect mean, the rounding case makes
\* a difference
ConstantMean(frames) ==
    LET sum == SumHPCP(frames)
    IN  /\ sum.frameCount > 0
        /\ sum.avgHPCP[1] # 0
        /\ \A index \in 1..Bins : sum.avgHPCP[index] = sum.avgHPCP[1]

\* whether the mean of the valid frames correlates perfectly with a profile
PerfectMean(frames) ==
    LET sum == SumHPCP(frames)
        avgHPCP == [scaled |-> sum.avgHPCP, by |-> sum.frameCount,
                    rounding |-> "exact"]
    IN  /\ sum.frameCount > 0
        /\ \E e \in 1..Len(GetKeyProfiles) :
               LET r == CalculateCorrelation(avgHPCP, Vector(GetKeyProfiles[e].profile))
               IN  r.num > 0 /\ r.num * r.num = r.den2

KeyInit ==
    /\ Constructor
    /\ FusionIdle
    /\ BestIdle
    /\ LookupIdle
    /\ TokensIdle
    /\ hpcpgram \in ListsUpTo(Frames, MaxFrames)
    /\ fpRounding \in IF ConstantMean(hpcpgram) \/ PerfectMean(hpcpgram)
                      THEN Roundings
                      ELSE {"exact"}
    /\ keyAnalysis = NotCalled

CallAnalyzeKeyFromHPCP ==
    /\ keyAnalysis = NotCalled
    /\ keyAnalysis' = ReturnedValue(AnalyzeKeyFromHPCP(hpcpgram, fpRounding))
    /\ UNCHANGED <<hpcpgram, fpRounding>>
    /\ UNCHANGED <<analyzerVars, callVars, fusionVars, bestVars, lookupVars,
                   tokenVars>>

KeyNext == CallAnalyzeKeyFromHPCP

SpecKey == KeyInit /\ [][KeyNext]_vars

\* whether a correlation is exactly 1.0
IsOne(r) == r.num > 0 /\ r.num * r.num = r.den2

\* C11: for each of the 24 key profiles, the estimate for a chromagram that
\* is exactly that profile vector (unit 1) is the key of that name with
\* confidence 1.0.
C11_SelfCorrelation ==
    \A e \in 1..Len(GetKeyProfiles) :
        ( /\ keyAnalysis.returned
          /\ fpRounding = "exact"
          /\ hpcpgram = <<Frame(GetKeyProfiles[e].profile)>> )
        => /\ keyAnalysis.value.key = GetKeyProfiles[e].name
           /\ IsOne(keyAnalysis.value.confidence)

\* a frame that is there and has exactly 12 elements
IsChromaFrame(frame) == frame.present /\ Len(frame.values) = 12

\* the valid frames of the chromagram, in their order
ChromaFrames == SelectSeq(hpcpgram, IsChromaFrame)

\* C18: frames that are missing or do not have exactly 12 elements add
\* nothing to the running sum and nothing to the frame count, and the
\* estimate for the chromagram is the estimate for the subsequence of its
\* valid frames.
C18_SkipsMalformed ==
    keyAnalysis.returned =>
        LET sum == SumHPCP(hpcpgram)
        IN  /\ sum.frameCount = Len(ChromaFrames)
            /\ \A index \in 1..12 :
                   sum.avgHPCP[index] =
                       SumOver([k \in 1..Len(ChromaFrames) |->
                                    ChromaFrames[k].values[index]],
                               Len(ChromaFrames))
            /\ keyAnalysis.value = AnalyzeKeyFromHPCP(ChromaFrames, fpRounding)

\* a frame of five bins in front of the weighted frame: the estimate is the
\* one of the weighted frame alone, C major
C18_Witness ==
    /\ keyAnalysis.returned
    /\ Len(hpcpgram) = 2
    /\ hpcpgram[1] = Frame(<<1, 0, 2, 0, 1>>)
    /\ hpcpgram[2] = Frame(<<2, 0, 0, 0, 1, 0, 0, 1, 0, 0, 0, 0>>)
    /\ keyAnalysis.value.key = "C major"
    /\ keyAnalysis.value.confidence.num > 0

\* C19: for a chromagram without a valid frame (empty, or every frame
\* missing or of a length other than 12) the estimate is {key: "Unknown",
\* confidence: 0}, and the estimator returns.
C19_NoValidFrame ==
    (keyAnalysis.returned /\ ChromaFrames = <<>>) =>
        /\ keyAnalysis.value.key = "Unknown"
        /\ keyAnalysis.value.confidence = 0
        /\ DOMAIN keyAnalysis.value = {"key", "confidence"}

\* a missing frame and a frame of five bins: the estimate is the Unknown key
C19_Witness ==
    /\ keyAnalysis.returned
    /\ hpcpgram = <<Null, Frame(<<1, 0, 2, 0, 1>>)>>
    /\ keyAnalysis.value.key = "Unknown"

\* whether every valid frame has one value in all its bins
ConstantChromagram ==
    /\ ChromaFrames # <<>>
    /\ \A k \in 1..Len(ChromaFrames) :
           \A index \in 1..12 :
               ChromaFrames[k].values[index] = ChromaFrames[k].values[1]

\* C20: for an all-zero or any constant chromagram the correlation with each
\* of the 24 profiles is 0, the confidence is 0 and the key is the first
\* profile in iteration order.
C20_ZeroVariance ==
    (keyAnalysis.returned /\ ConstantChromagram) =>
        /\ keyAnalysis.value.key = GetKeyProfiles[1].name
        /\ keyAnalysis.value.confidence = ZeroCorrelation
        /\ \A e \in 1..Len(GetKeyProfiles) :
               keyAnalysis.value.allCorrelations[e].correlation = ZeroCorrelation

\* the estimator returned an estimate other than the Unknown key
Classified == keyAnalysis.returned /\ keyAnalysis.value.key # "Unknown"

Tonics == <<"C", "C#", "D", "D#", "E", "F", "F#", "G", "G#", "A", "A#", "B">>

\* C21: the correlations are taken in one fixed order, tonic ascending from C
\* to B and major before minor for each tonic, and the key returned is the
\* first in that order whose correlation no other exceeds: it is strictly
\* greater than every correlation before it, so of the profiles tied for the
\* maximum the earliest wins.
C21_TieBreak ==
    Classified =>
        LET c == keyAnalysis.value.allCorrelations
        IN  /\ \A t \in 0..11 :
                   /\ c[2 * t + 1].name = Tonics[t + 1] \o " major"
                   /\ c[2 * t + 2].name = Tonics[t + 1] \o " minor"
            /\ \E e \in 1..Len(c) :
                   /\ c[e].name = keyAnalysis.value.key
                   /\ \A d \in 1..Len(c) :
                          ~Greater(c[d].correlation, c[e].correlation)
                   /\ \A d \in 1..(e - 1) :
                          Greater(c[e].correlation, c[d].correlation)

\* the weighted frame on C, E and G: C major, F major and G major (and their
\* relative minors) have the same correlation, and C major is returned
C21_Witness ==
    /\ Classified
    /\ hpcpgram = <<Frame(<<2, 0, 0, 0, 1, 0, 0, 1, 0, 0, 0, 0>>)>>
    /\ keyAnalysis.value.allCorrelations[1].correlation
           = keyAnalysis.value.allCorrelations[11].correlation
    /\ keyAnalysis.value.allCorrelations[1].correlation
           = keyAnalysis.value.allCorrelations[15].correlation
    /\ keyAnalysis.value.allCorrelations[11].name = "F major"
    /\ keyAnalysis.value.allCorrelations[15].name = "G major"
    /\ keyAnalysis.value.key = "C major"

\* the template the table is to hold for tonic t and the offsets of a mode
Template(t, offsets) ==
    [position \in 1..12 |->
        IF \E offset \in offsets : (t + offset) % 12 = position - 1 THEN 1 ELSE 0]

\* C22: the key profile table has exactly 24 entries, one named
\* "<Tonic> major" and one named "<Tonic> minor" for each of the 12 tonics;
\* the template of a key is the 12-element vector with 1 exactly at the
\* positions (tonic index + offset) mod 12 for the offsets {0,2,4,5,7,9,11}
\* (major) or {0,2,3,5,7,8,10} (minor) and 0 elsewhere; and every estimate
\* reports its correlations against this table.
C22_KeyProfileTable ==
    /\ Len(GetKeyProfiles) = 24
    /\ \A t \in 0..11 :
           /\ \E e \in 1..Len(GetKeyProfiles) :
                  /\ GetKeyProfiles[e].name = Tonics[t + 1] \o " major"
                  /\ GetKeyProfiles[e].profile = Template(t, {0, 2, 4, 5, 7, 9, 11})
           /\ \E e \in 1..Len(GetKeyProfiles) :
                  /\ GetKeyProfiles[e].name = Tonics[t + 1] \o " minor"
                  /\ GetKeyProfiles[e].profile = Template(t, {0, 2, 3, 5, 7, 8, 10})
    /\ Cardinality({ GetKeyProfiles[e].name : e \in 1..Len(GetKeyProfiles) }) = 24
    /\ Classified =>
           /\ Len(keyAnalysis.value.allCorrelations) = 24
           /\ \A e \in 1..24 :
                  /\ keyAnalysis.value.allCorrelations[e].name = GetKeyProfiles[e].name
                  /\ keyAnalysis.value.allCorrelations[e].correlation =
                         CalculateCorrelation(
                             [scaled |-> SumHPCP(hpcpgram).avgHPCP,
                              by |-> SumHPCP(hpcpgram).frameCount,
                              rounding |-> fpRounding],
                             Vector(GetKeyProfiles[e].profile))

\* the D major template as the only frame: the estimate is D major, the name
\* of the fifth entry of the table
C22_Witness ==
    /\ Classified
    /\ hpcpgram = <<Frame(<<0, 1, 1, 0, 1, 0, 1, 1, 0, 1, 0, 1>>)>>
    /\ fpRounding = "exact"
    /\ keyAnalysis.value.key = "D major"
    /\ keyAnalysis.value.allCorrelations[5].name = "D major"
    /\ IsOne(keyAnalysis.value.allCorrelations[5].correlation)

\* C23: the confidence the estimator reports is never negative and never
\* above 1, and it is max(0, r) for the correlation r of the key returned.
C23_ConfidenceRange ==
    /\ (keyAnalysis.returned /\ ~Classified) => keyAnalysis.value.confidence = 0
    /\ Classified =>
           LET confidence == keyAnalysis.value.confidence
               c == keyAnalysis.value.allCorrelations
           IN  /\ confidence.den2 > 0
               /\ confidence.num >= 0
               /\ confidence.num * confidence.num <= confidence.den2
               /\ \A e \in 1..Len(c) :
                      (c[e].name = keyAnalysis.value.key /\ c[e].correlation # NaN)
                          => confidence = MaxZero(c[e].correlation)

\* the entry of the relative minor of the major key of tonic t: the minor key
\* whose tonic is three semitones below
RelativeMinor(t) == 2 * ((t + 9) % 12) + 2

\* C25: a major key and its relative minor have the same template, so for
\* every chromagram their correlations are equal; the estimator returns, of
\* each such pair, only the key that comes first in iteration order, so the
\* 12 keys that come second in their pair are never returned.
C25_RelativeKeys ==
    /\ \A t \in 0..11 :
           GetKeyProfiles[2 * t + 1].profile = GetKeyProfiles[RelativeMinor(t)].profile
    /\ Classified =>
           \A t \in 0..11 :
               LET major == 2 * t + 1
                   minor == RelativeMinor(t)
                   c == keyAnalysis.value.allCorrelations
               IN  /\ c[major].correlation = c[minor].correlation
                   /\ keyAnalysis.value.key #
                          c[IF major < minor THEN minor ELSE major].name

\* the F# major template as the only frame: F# major and D# minor both
\* correlate with 1.0 and D# minor is returned
C25_Witness ==
    /\ Classified
    /\ hpcpgram = <<Frame(<<0, 1, 0, 1, 0, 1, 1, 0, 1, 0, 1, 1>>)>>
    /\ fpRounding = "exact"
    /\ IsOne(keyAnalysis.value.allCorrelations[13].correlation)
    /\ IsOne(keyAnalysis.value.allCorrelations[8].correlation)
    /\ keyAnalysis.value.allCorrelations[13].name = "F# major"
    /\ keyAnalysis.value.key = "D# minor"

\* C24: a call that missed has fused once and its key has an entry when it
\* has returned, whatever the fusion gave: the entry is the bundle a call
\* that missed on this key returned, and it is the call's own bundle, the
\* failure bundle (method none, tier low) included, when no other call missed
\* on the key; a call that hit returns the bundle a call that missed on its
\* key stored, the failure bundle included, and runs neither the native
\* analysis nor the lookup nor the fusion.
C24_StoreOnMiss ==
    \A c \in Calls :
        LET key == KeyOf(args[c])
            others == { d \in Calls \ {c} : Missed(d) /\ KeyOf(args[d]) = key }
        IN  /\ Missed(c) =>
                   /\ fusionCalls[c] = 1
                   /\ ret[c].finalResult.confidence \in Tiers
                   /\ CacheHas(analysisCache, key)
                   /\ analysisCache[key] \in { ret[d] : d \in others \cup {c} }
                   /\ others = {} => analysisCache[key] = ret[c]
            /\ Hit(c) =>
                   /\ nativeCalls[c] = 0
                   /\ lookupCalls[c] = 0
                   /\ fusionCalls[c] = 0
                   /\ ret[c] \in { ret[d] : d \in others }

\* both paths of a call failed, it returned the failure bundle, and a later
\* call with the same triple returned that bundle from the cache
C24_Witness ==
    \E c, d \in Calls :
        /\ c # d
        /\ args[c] = args[d]
        /\ Missed(c)
        /\ path[c].native = "failed" /\ path[c].lookup = "failed"
        /\ ret[c].finalResult.method = "none"
        /\ ret[c].finalResult.confidence = "low"
        /\ analysisCache[KeyOf(args[c])] = ret[c]
        /\ Hit(d)
        /\ ret[d] = ret[c]
        /\ nativeCalls[d] = 0 /\ lookupCalls[d] = 0

\* C26: a step in which the native analysis runs invokes FrameGenerator on an
\* extractor on which delete() has not run, and invokes RhythmExtractor2013
\* on the extractor as key detection left it, on which delete() has not run
\* either.
C26_NoUseAfterDeleteStep ==
    \A c \in Calls, keyThrew \in BOOLEAN, keyEstimate \in KeyEstimates,
       bpmThrew \in BOOLEAN, bpmEstimate \in TempoEstimates :
        NativeResolved(c, keyThrew, keyEstimate, bpmThrew, bpmEstimate) =>
            /\ ~essentiaExtractor.deleted
            /\ ~DetectKeyWithEssentia(essentiaExtractor, keyThrew,
                                      keyEstimate).extractor.deleted

C26_NoUseAfterDelete == [][C26_NoUseAfterDeleteStep]_vars

\* C27: the initialization starts only while there is no initialization
\* promise, and the promise is never cleared, so it starts at most once
\* whatever the interleaving of the callers; every caller that waits, waits on
\* that one promise: it goes on only once the analyzer is initialized and
\* throws only once the promise is rejected; isInitialized is true only when
\* essentiaExtractor has been set and the promise is resolved.
C27_InitOnceStep ==
    /\ (initializationPromise' = "loading" /\ initializationPromise # "loading")
           => initializationPromise = "null" /\ ~isInitialized
    /\ initializationPromise # "null" => initializationPromise' # "null"
    /\ initializationPromise \in {"resolved", "rejected"}
           => initializationPromise' = initializationPromise
    /\ \A c \in Calls :
           /\ (pc[c] = "awaitInit" /\ pc'[c] \in {"reading", "done"})
                  => isInitialized /\ initializationPromise = "resolved"
           /\ (pc[c] = "awaitInit" /\ pc'[c] = "thrown")
                  => initializationPromise = "rejected"

C27_Initialized ==
    /\ isInitialized <=> initializationPromise = "resolved"
    /\ isInitialized => essentiaExtractor.present
    /\ ~isInitialized => essentiaExtractor = Null
    /\ \A c \in Calls : pc[c] # "idle" => initializationPromise # "null"

C27_InitOnce == [][C27_InitOnceStep]_vars /\ []C27_Initialized

\* two callers wait on the one initialization, which has completed and set
\* the extractor
C27_Witness ==
    /\ \E c, d \in Calls : c # d /\ pc[c] = "awaitInit" /\ pc[d] = "awaitInit"
    /\ isInitialized
    /\ initializationPromise = "resolved"
    /\ essentiaExtractor = [present |-> TRUE, deleted |-> FALSE]

\* C28: the method of a fusion result determines its tier: essentia_analysis
\* gives high, essentia_analysis_fallback and web_database give medium, none
\* gives low; a result of method none has the key Unknown, bpm 0 and the one
\* failure note; a result of tier medium or high has its key and its bpm both
\* from the native result, or both from one and the same lookup record.
C28_Consistency ==
    Fused =>
        /\ fusionOutput.method \in {"essentia_analysis", "essentia_analysis_fallback",
                                    "web_database", "none"}
        /\ fusionOutput.method = "essentia_analysis" => fusionOutput.confidence = "high"
        /\ fusionOutput.method = "essentia_analysis_fallback"
               => fusionOutput.confidence = "medium"
        /\ fusionOutput.method = "web_database" => fusionOutput.confidence = "medium"
        /\ fusionOutput.method = "none" =>
               /\ fusionOutput.confidence = "low"
               /\ fusionOutput.key = "Unknown"
               /\ fusionOutput.bpm = 0
               /\ fusionOutput.notes = << "Analysis failed - insufficient confidence" >>
        /\ fusionOutput.confidence \in {"medium", "high"} =>
               \/ /\ fusionOutput.method \in {"essentia_analysis",
                                              "essentia_analysis_fallback"}
                  /\ NativeExists
                  /\ fusionOutput.key = fusionInput.analysis.key.key
                  /\ fusionOutput.bpm = fusionInput.analysis.bpm.bpm
               \/ /\ fusionOutput.method = "web_database"
                  /\ LookupExists
                  /\ \E i \in 1..Len(fusionInput.webData.list) :
                         /\ fusionOutput.key = fusionInput.webData.list[i].key
                         /\ fusionOutput.bpm =
                                ParseIntOrZero(fusionInput.webData.list[i].bpm)

\* two lookup records with different keys and tempos and no native result:
\* the result is the tier medium lookup result, key and bpm of the first
C28_Witness ==
    /\ Fused
    /\ ~NativeExists
    /\ LookupExists
    /\ Len(fusionInput.webData.list) = 2
    /\ fusionInput.webData.list[1].key # fusionInput.webData.list[2].key
    /\ fusionInput.webData.list[1].bpm # fusionInput.webData.list[2].bpm
    /\ fusionOutput.method = "web_database"
    /\ fusionOutput.confidence = "medium"
    /\ fusionOutput.key = fusionInput.webData.list[1].key

\* scrapedData.map(d => d.source), the research-source list of the fallback
\* insights
ResearchSources(scrapedData) ==
    [i \in 1..Len(scrapedData) |-> scrapedData[i].source]

\* C29: after getBestData has returned, the list it was called with has the
\* same records in the same order as at the call, and so has the
\* research-source list taken from it afterwards.
C29_ArgumentUnchanged ==
    bestData.returned =>
        /\ scraped = bestArg
        /\ ResearchSources(scraped) = ResearchSources(bestArg)

(***************************************************************************)
(* DeepSeekAIService: the token budget of generateMusicalInsights within   *)
(* one day (lastResetDate is today throughout, so resetDailyUsage changes  *)
(* nothing). A call runs from the limit check to the start of the API      *)
(* request without an await; the usage of a request is added when its      *)
(* response arrives.                                                       *)
(***************************************************************************)
MaxTokensPerDay == 10000

MaxTokensPerUser == 2000

\* usage.total_tokens of a response: the prompt and up to maxTokensPerRequest
\* (800) tokens of completion
TotalTokens == {450, 900}

\* the userId argument: undefined (falsy), or a user
NoUser == ""

UserIds == {NoUser, "u1"}

YoutubeTitles == {"Artist - Song"}

\* generateCacheKey(youtubeTitle, audioAnalysisResult) without an audio result
GenerateCacheKey(youtubeTitle) == youtubeTitle \o "-"

\* this.userTokenUsage.get(userId) >= limit: undefined compares false
UserUsageAtLeast(userId, limit) ==
    userId \in DOMAIN userTokenUsage /\ userTokenUsage[userId] >= limit

\* canMakeRequest(userId)
CanMakeRequest(userId) ==
    /\ ~(dailyTokenUsage >= MaxTokensPerDay)
    /\ ~(userId # NoUser /\ UserUsageAtLeast(userId, MaxTokensPerUser))

\* trackTokenUsage(tokens, userId): the new userTokenUsage
TrackTokenUsage(tokens, userId) ==
    IF userId # NoUser
    THEN [u \in DOMAIN userTokenUsage \cup {userId} |->
             IF u = userId
             THEN (IF u \in DOMAIN userTokenUsage THEN userTokenUsage[u] ELSE 0)
                      + tokens
             ELSE userTokenUsage[u]]
    ELSE userTokenUsage

\* an API request in flight, for the call that started it
ApiRequest(userId, cacheKey) ==
    [present |-> TRUE, userId |-> userId, cacheKey |-> cacheKey]

(***************************************************************************)
(* generateMusicalInsights(youtubeTitle, undefined, userId) up to its      *)
(* return or to the await of the API request: over the limit it returns    *)
(* fallback insights; on a cache hit it returns the cached insights;       *)
(* otherwise it starts the request.                                        *)
(***************************************************************************)
GenerateMusicalInsights(youtubeTitle, userId) ==
    IF ~CanMakeRequest(userId)
    THEN /\ lastMode' = "free"
         /\ UNCHANGED <<dailyTokenUsage, userTokenUsage, requestCache, apiRequests>>
    ELSE IF GenerateCacheKey(youtubeTitle) \in requestCache
    THEN UNCHANGED tokenVars
    ELSE /\ \E r \in 1..MaxRequests :
                /\ ~apiRequests[r].present
                /\ \A q \in 1..(r - 1) : apiRequests[q].present
                /\ apiRequests' = [apiRequests EXCEPT ![r] =
                       ApiRequest(userId, GenerateCacheKey(youtubeTitle))]
         /\ UNCHANGED <<dailyTokenUsage, userTokenUsage, requestCache, lastMode>>

(***************************************************************************)
(* makeDeepSeekRequest resolves with a response that used totalTokens:     *)
(* trackTokenUsage, the insights are cached, lastMode = 'ai'.              *)
(***************************************************************************)
RequestResolved(r, totalTokens) ==
    /\ apiRequests[r].present
    /\ dailyTokenUsage' = dailyTokenUsage + totalTokens
    /\ userTokenUsage' = TrackTokenUsage(totalTokens, apiRequests[r].userId)
    /\ requestCache' = requestCache \cup {apiRequests[r].cacheKey}
    /\ lastMode' = "ai"
    /\ apiRequests' = [apiRequests EXCEPT ![r] = Null]

(***************************************************************************)
(* makeDeepSeekRequest throws (the request failed or the response has no   *)
(* choices): the catch returns fallback insights.                          *)
(***************************************************************************)
RequestRejected(r) ==
    /\ apiRequests[r].present
    /\ lastMode' = "free"
    /\ apiRequests' = [apiRequests EXCEPT ![r] = Null]
    /\ UNCHANGED <<dailyTokenUsage, userTokenUsage, requestCache>>

\* clearCache()
ClearCache ==
    /\ requestCache # {}
    /\ requestCache' = {}
    /\ UNCHANGED <<dailyTokenUsage, userTokenUsage, lastMode, apiRequests>>

TokensInit ==
    /\ Constructor
    /\ FusionIdle
    /\ BestIdle
    /\ LookupIdle
    /\ KeyIdle
    /\ TokensIdle

otherVars == <<analyzerVars, callVars, fusionVars, bestVars, lookupVars, keyVars>>

TokensNext ==
    \/ \E youtubeTitle \in YoutubeTitles, userId \in UserIds :
           GenerateMusicalInsights(youtubeTitle, userId) /\ UNCHANGED otherVars
    \/ \E r \in 1..MaxRequests, totalTokens \in TotalTokens :
           RequestResolved(r, totalTokens) /\ UNCHANGED otherVars
    \/ \E r \in 1..MaxRequests : RequestRejected(r) /\ UNCHANGED otherVars
    \/ ClearCache /\ UNCHANGED otherVars

SpecTokens == TokensInit /\ [][TokensNext]_vars

\* C30: the daily token usage never exceeds maxTokensPerDay and no user's
\* recorded usage exceeds maxTokensPerUser, whatever the sequence and
\* interleaving of generateMusicalInsights calls within a day.
C30_TokenBudget ==
    /\ dailyTokenUsage <= MaxTokensPerDay
    /\ \A u \in DOMAIN userTokenUsage : userTokenUsage[u] <= MaxTokensPerUser

====
